---- MODULE Spec2Model ----
(***************************************************************************)
(* Model of the hand-gesture pipeline of the 3D lab:                       *)
(*   HandGestureController.tsx  (camera/detector lifecycle, onResults,     *)
(*                               detectGesture)                            *)
(*   Viewer.tsx                 (render tick and pointer handlers)         *)
(*                                                                         *)
(* Units.  Normalised image coordinates are integers in thousandths        *)
(* (0.001), angles are in milliradians, zoom is in millionths.  With       *)
(* these units the source's arithmetic keeps its constants:                *)
(*   rotation += delta * 10, extension margin 0.05 = 50, pinch 0.06 = 60.  *)
(***************************************************************************)
EXTENDS Integers, Sequences, FiniteSets, TLC

VARIABLES
  \* ---- HandGestureController: props, state and refs
  enabled,          \* prop `enabled` of the committed render (canvas mounted iff TRUE)
  isInitialized,    \* useState
  gestureMode,      \* useState
  currentGesture,   \* useState
  error,            \* useState
  rotationRef,      \* useRef {x, y}
  zoomRef,          \* useRef number
  lastHandPosRef,   \* useRef {x, y} | null   (<<>> is null)
  initializingRef,  \* useRef boolean
  cameraRef,        \* useRef Camera | null   (0 is null, else the run that made it)
  handsRef,         \* useRef Hands | null    (0 is null, else the run that made it)
  runs,             \* one record per run of the enabled branch of the effect
  controls,         \* last value handed to onGestureChange (<<>> if none yet)
  frames,           \* number of camera frames sent to the detector so far
  frameLimit,       \* number of camera frames the behaviour looks at
  \* ---- observation of the last step
  lastOp,           \* which operation ran last
  emitted,          \* number of onGestureChange calls made by the last step
  lastGesture,      \* result of detectGesture in the last step (<<>> if not called)
  stickyMode,       \* mode of the latest mode-bearing frame of the session
  cleanup,          \* the effect's pending cleanup function (0: none, else its run)
  \* ---- detectGesture on its own
  lm,               \* a landmark set
  gmode,            \* the gestureMode the classifier closes over
  gesture,          \* <<>> or <<detectGesture(lm)>>
  \* ---- the zoom over a run of non-pinch hand frames
  dz,               \* zoomRef.current
  dprev,            \* zoomRef.current before the last frame
  dn,               \* number of non-pinch hand frames since the start
  \* ---- Viewer
  gestureEnabledRef,      \* useRef, follows the gestureEnabled prop
  gestureControlsRef,     \* useRef, follows the gestureControls prop (<<>> is null)
  selectedOrgan,          \* prop
  sceneReady,             \* import('./three') resolved and the scene was set up
  meshLoaded,             \* meshRef.current is the loaded model
  meshRotation,           \* meshRef.current.rotation {x, y}
  meshScale,              \* meshRef.current.scale (uniform): base scale and zoom factor
  isDragging,             \* closure variable of the scene setup
  previousMousePosition,  \* closure variable of the scene setup
  ticks,                  \* render ticks and drag moves so far
  vLastOp,                \* which Viewer operation ran last
  \* ---- Viewer: the [mode, selectedOrgan] effect
  viewerMounted,          \* the Viewer component is mounted
  effects,                \* one record per run of the effect
  cleanupRef              \* useRef (() => void) | null  (0 is null, else the run whose cleanup it holds)

ctrlVars == <<enabled, isInitialized, gestureMode, currentGesture, error,
              rotationRef, zoomRef, lastHandPosRef, initializingRef,
              cameraRef, handsRef, runs, controls, frames, frameLimit,
              lastOp, emitted, lastGesture, stickyMode, cleanup>>
classVars == <<lm, gmode, gesture>>
decayVars == <<dz, dprev, dn>>
viewVars == <<gestureEnabledRef, gestureControlsRef, selectedOrgan, sceneReady,
              meshLoaded, meshRotation, meshScale, isDragging,
              previousMousePosition, ticks, vLastOp>>
sceneVars == <<viewerMounted, effects, cleanupRef>>
vars == <<ctrlVars, classVars, decayVars, viewVars, sceneVars>>

----------------------------------------------------------------------------
(* Bounds of the model *)
MaxRuns == 2
MaxFrames == 2
MaxSessionFrames == 3
MaxDecayFrames == 100
MaxTicks == 3
MaxEffects == 3
MaxLoopFrames == 2

(* Program constants *)
ExtendMargin == 50
PinchThreshold == 60
RotationSensitivity == 10
ZoomMin == 300000
ZoomMax == 2500000
ZoomOne == 1000000
Infinity == 2147483647
AutoRotateStep == 5
DragSensitivity == 10
HeartScale == 10000
BrainScale == 1

Modes == {"normal", "dissection", "pathology"}
ErrorNull == "null"
CameraError == "Camera access denied or not available"

----------------------------------------------------------------------------
(* Landmarks *)
Pt(px, py) == [x |-> px, y |-> py]

WRIST == 0
THUMB_KNUCKLE == 2
THUMB_TIP == 4
INDEX_KNUCKLE == 5
INDEX_TIP == 8
MIDDLE_KNUCKLE == 9
MIDDLE_TIP == 12
RING_KNUCKLE == 13
RING_TIP == 16
PINKY_KNUCKLE == 17
PINKY_TIP == 20

LandmarkIds == {WRIST, THUMB_KNUCKLE, THUMB_TIP, INDEX_KNUCKLE, INDEX_TIP,
                MIDDLE_KNUCKLE, MIDDLE_TIP, RING_KNUCKLE, RING_TIP,
                PINKY_KNUCKLE, PINKY_TIP}

\* A hand: wrist at `o`, knuckles at fixed places relative to the wrist,
\* the five tips where the pose puts them.
Hand(o, p) ==
  LET at(dx, dy) == Pt(o.x + dx, o.y + dy) IN
  [i \in LandmarkIds |->
     CASE i = WRIST          -> at(0, 0)
       [] i = THUMB_KNUCKLE  -> at(-40, -30)
       [] i = INDEX_KNUCKLE  -> at(-20, -90)
       [] i = MIDDLE_KNUCKLE -> at(0, -100)
       [] i = RING_KNUCKLE   -> at(20, -90)
       [] i = PINKY_KNUCKLE  -> at(40, -80)
       [] i = THUMB_TIP      -> at(p.thumb.x, p.thumb.y)
       [] i = INDEX_TIP      -> at(p.index.x, p.index.y)
       [] i = MIDDLE_TIP     -> at(p.middle.x, p.middle.y)
       [] i = RING_TIP       -> at(p.ring.x, p.ring.y)
       [] i = PINKY_TIP      -> at(p.pinky.x, p.pinky.y)]

\* Tip positions relative to the wrist.
ThumbTips == {Pt(-100, -60),   \* extended
              Pt(-50, -40),    \* retracted
              Pt(-50, -70),    \* retracted, 42 from a retracted index tip
              Pt(-10, -94),    \* retracted, 50 from a short extended index tip
              Pt(-20, -100),   \* on a retracted index tip (distance 0)
              Pt(-40, -100),   \* 20 from a retracted index tip
              Pt(-60, -100),   \* 40 from a retracted index tip
              Pt(-40, -170)}   \* 22 from an extended index tip
IndexTips == {Pt(-20, -180), Pt(-16, -144), Pt(-20, -100)}
MiddleTips == {Pt(0, -190), Pt(0, -110)}
RingTips == {Pt(20, -180), Pt(20, -100)}
PinkyTips == {Pt(40, -160), Pt(40, -90)}

Poses == [thumb : ThumbTips, index : IndexTips, middle : MiddleTips,
          ring : RingTips, pinky : PinkyTips]

----------------------------------------------------------------------------
(* Arithmetic *)
Sq(a) == a * a
Dist2(p, q) == Sq(p.x - q.x) + Sq(p.y - q.y)

RECURSIVE SqrtSearch(_, _, _)
SqrtSearch(n, lo, hi) ==
  IF lo = hi THEN lo
  ELSE LET mid == (lo + hi + 1) \div 2
       IN IF mid * mid <= n THEN SqrtSearch(n, mid, hi)
                            ELSE SqrtSearch(n, lo, mid - 1)

\* floor of the square root
Sqrt(n) == SqrtSearch(n, 0, 46340)

\* Math.hypot(tip - wrist) > Math.hypot(knuckle - wrist) + 0.05, decided
\* exactly on the squared distances a = |tip - wrist|^2, b = |knuckle - wrist|^2:
\*   sqrt(a) > sqrt(b) + m   iff   a - b - m^2 > 0  /\  (a - b - m^2)^2 > 4 m^2 b
FartherByMargin(tip, knuckle, wrist) ==
  LET a == Dist2(tip, wrist)
      b == Dist2(knuckle, wrist)
      d == a - b - Sq(ExtendMargin)
  IN d > 0 /\ Sq(d) > 4 * Sq(ExtendMargin) * b

----------------------------------------------------------------------------
(* detectGesture *)

\* Gesture names, as the words of the source's strings.
PINCH == <<"Pinch", "-", "Zoom", "Active">>
OPEN_HAND == <<"Open", "Hand", "-", "Dissection", "Mode">>
FIST == <<"Fist", "-", "Normal", "Mode">>
PEACE_SIGN == <<"Peace", "Sign", "-", "Pathology", "Mode">>
OPEN_PALM == <<"Open", "Palm", "-", "Rotate", "Model">>
POINTING == <<"Pointing", "-", "Rotate", "Model">>
UNCLEAR == <<"Show", "a", "clear", "gesture">>
SHOW_YOUR_HAND == <<"Show", "your", "hand">>

\* String.prototype.includes, for a search string that is one word
Includes(name, word) == \E i \in DOMAIN name : name[i] = word

thumbExtended(l) == FartherByMargin(l[THUMB_TIP], l[THUMB_KNUCKLE], l[WRIST])
indexExtended(l) == FartherByMargin(l[INDEX_TIP], l[INDEX_KNUCKLE], l[WRIST])
middleExtended(l) == FartherByMargin(l[MIDDLE_TIP], l[MIDDLE_KNUCKLE], l[WRIST])
ringExtended(l) == FartherByMargin(l[RING_TIP], l[RING_KNUCKLE], l[WRIST])
pinkyExtended(l) == FartherByMargin(l[PINKY_TIP], l[PINKY_KNUCKLE], l[WRIST])

\* the count with the thumb counted as a fifth finger
extendedCountWithThumb(l) ==
  Cardinality({f \in {"thumb", "index", "middle", "ring", "pinky"} :
     \/ f = "thumb" /\ thumbExtended(l)
     \/ f = "index" /\ indexExtended(l)
     \/ f = "middle" /\ middleExtended(l)
     \/ f = "ring" /\ ringExtended(l)
     \/ f = "pinky" /\ pinkyExtended(l)})

extendedCount(l) ==
  Cardinality({f \in {"index", "middle", "ring", "pinky"} :
     \/ f = "index" /\ indexExtended(l)
     \/ f = "middle" /\ middleExtended(l)
     \/ f = "ring" /\ ringExtended(l)
     \/ f = "pinky" /\ pinkyExtended(l)})

\* Math.hypot(thumbTip - indexTip) < 0.06
pinchClose(l) == Dist2(l[THUMB_TIP], l[INDEX_TIP]) < Sq(PinchThreshold)

\* detectGesture with the fist rule returning the closed-over mode
detectGestureFistSticky(l, mode) ==
  IF pinchClose(l) /\ ~middleExtended(l) /\ ~ringExtended(l) /\ ~pinkyExtended(l)
    THEN [name |-> PINCH, mode |-> mode]
  ELSE IF extendedCount(l) = 4 /\ thumbExtended(l)
    THEN [name |-> OPEN_HAND, mode |-> "dissection"]
  ELSE IF extendedCount(l) = 0 /\ ~thumbExtended(l)
    THEN [name |-> FIST, mode |-> mode]
  ELSE IF indexExtended(l) /\ middleExtended(l) /\ ~ringExtended(l)
          /\ ~pinkyExtended(l) /\ ~thumbExtended(l)
    THEN [name |-> PEACE_SIGN, mode |-> "pathology"]
  ELSE IF extendedCount(l) >= 3
    THEN [name |-> OPEN_PALM, mode |-> mode]
  ELSE IF indexExtended(l) /\ ~middleExtended(l) /\ ~ringExtended(l)
          /\ ~pinkyExtended(l)
    THEN [name |-> POINTING, mode |-> mode]
  ELSE [name |-> UNCLEAR, mode |-> mode]

\* detectGesture with a pinch rule that does not look at the middle finger
detectGesturePinchOverMiddle(l, mode) ==
  IF pinchClose(l) /\ ~ringExtended(l) /\ ~pinkyExtended(l)
    THEN [name |-> PINCH, mode |-> mode]
  ELSE IF extendedCount(l) = 4 /\ thumbExtended(l)
    THEN [name |-> OPEN_HAND, mode |-> "dissection"]
  ELSE IF extendedCount(l) = 0 /\ ~thumbExtended(l)
    THEN [name |-> FIST, mode |-> "normal"]
  ELSE IF indexExtended(l) /\ middleExtended(l) /\ ~ringExtended(l)
          /\ ~pinkyExtended(l) /\ ~thumbExtended(l)
    THEN [name |-> PEACE_SIGN, mode |-> "pathology"]
  ELSE IF extendedCount(l) >= 3
    THEN [name |-> OPEN_PALM, mode |-> mode]
  ELSE IF indexExtended(l) /\ ~middleExtended(l) /\ ~ringExtended(l)
          /\ ~pinkyExtended(l)
    THEN [name |-> POINTING, mode |-> mode]
  ELSE [name |-> UNCLEAR, mode |-> mode]

\* detectGesture with a palm rule that wants all four fingers
detectGesturePalmOfFour(l, mode) ==
  IF pinchClose(l) /\ ~middleExtended(l) /\ ~ringExtended(l) /\ ~pinkyExtended(l)
    THEN [name |-> PINCH, mode |-> mode]
  ELSE IF extendedCount(l) = 4 /\ thumbExtended(l)
    THEN [name |-> OPEN_HAND, mode |-> "dissection"]
  ELSE IF extendedCount(l) = 0 /\ ~thumbExtended(l)
    THEN [name |-> FIST, mode |-> "normal"]
  ELSE IF indexExtended(l) /\ middleExtended(l) /\ ~ringExtended(l)
          /\ ~pinkyExtended(l) /\ ~thumbExtended(l)
    THEN [name |-> PEACE_SIGN, mode |-> "pathology"]
  ELSE IF extendedCount(l) > 3
    THEN [name |-> OPEN_PALM, mode |-> mode]
  ELSE IF indexExtended(l) /\ ~middleExtended(l) /\ ~ringExtended(l)
          /\ ~pinkyExtended(l)
    THEN [name |-> POINTING, mode |-> mode]
  ELSE [name |-> UNCLEAR, mode |-> mode]

\* `mode` is the gestureMode of the render whose closure runs.
detectGesture(l, mode) ==
  IF pinchClose(l) /\ ~middleExtended(l) /\ ~ringExtended(l) /\ ~pinkyExtended(l)
    THEN [name |-> PINCH, mode |-> mode]
  ELSE IF extendedCount(l) = 4 /\ thumbExtended(l)
    THEN [name |-> OPEN_HAND, mode |-> "dissection"]
  ELSE IF extendedCount(l) = 0 /\ ~thumbExtended(l)
    THEN [name |-> FIST, mode |-> "normal"]
  ELSE IF indexExtended(l) /\ middleExtended(l) /\ ~ringExtended(l)
          /\ ~pinkyExtended(l) /\ ~thumbExtended(l)
    THEN [name |-> PEACE_SIGN, mode |-> "pathology"]
  ELSE IF extendedCount(l) >= 3
    THEN [name |-> OPEN_PALM, mode |-> mode]
  ELSE IF indexExtended(l) /\ ~middleExtended(l) /\ ~ringExtended(l)
          /\ ~pinkyExtended(l)
    THEN [name |-> POINTING, mode |-> mode]
  ELSE [name |-> UNCLEAR, mode |-> mode]

----------------------------------------------------------------------------
(* The classifier on its own: every pose at one place, every closed-over mode *)
Origin == Pt(500, 700)

ClassifyInit ==
  /\ lm \in {Hand(Origin, p) : p \in Poses}
  /\ gmode \in Modes
  /\ gesture = <<>>

Classify ==
  /\ gesture = <<>>
  /\ gesture' = <<detectGesture(lm, gmode)>>
  /\ UNCHANGED <<lm, gmode>>

NextLandmarks ==
  /\ gesture # <<>>
  /\ lm' \in {Hand(Origin, p) : p \in Poses}
  /\ gmode' \in Modes
  /\ gesture' = <<>>

----------------------------------------------------------------------------
(* HandGestureController: the [enabled] effect *)

NewRun(mode) ==
  [mounted |-> TRUE,        \* `let mounted = true`
   gestureMode |-> mode,    \* gestureMode as closed over by this render's onResults
   start |-> "pending",     \* the promise of camera.start()
   stopped |-> FALSE,       \* camera.stop() was called
   closed |-> FALSE,        \* hands.close() was called
   pending |-> <<>>]        \* results of a frame sent and not yet delivered

\* a teardown that forgets the camera
StopCameraSkipped(rs, cam) == rs

\* cameraRef.current.stop(), guarded by `if (cameraRef.current)`
StopCamera(rs, cam) ==
  IF cam # 0 THEN [rs EXCEPT ![cam].stopped = TRUE] ELSE rs

\* handsRef.current.close(), guarded by `if (handsRef.current)`
CloseHands(rs, h) ==
  IF h # 0 THEN [rs EXCEPT ![h].closed = TRUE] ELSE rs

\* Whether disabling resets the guard flag (initializingRef.current = false)
ResetInitializing(flag) == FALSE

CtrlInit ==
  /\ enabled = FALSE
  /\ isInitialized = FALSE
  /\ gestureMode = "normal"
  /\ currentGesture = SHOW_YOUR_HAND
  /\ error = ErrorNull
  /\ rotationRef = Pt(0, 0)
  /\ zoomRef = ZoomOne
  /\ lastHandPosRef = <<>>
  /\ initializingRef = FALSE
  /\ cameraRef = 0
  /\ handsRef = 0
  /\ runs = <<>>
  /\ controls = <<>>
  /\ frames = 0
  /\ frameLimit = MaxFrames
  /\ lastOp = "mount"
  /\ emitted = 0
  /\ lastGesture = <<>>
  /\ stickyMode = "normal"
  /\ cleanup = 0

\* The user turns gesture mode on: render with enabled = true, then the effect.
Enable ==
  /\ ~enabled
  /\ Len(runs) < MaxRuns
  /\ enabled' = TRUE
  /\ lastOp' = "enable"
  /\ emitted' = 0
  /\ lastGesture' = <<>>
  /\ stickyMode' = gestureMode
  /\ IF initializingRef \/ handsRef # 0
       THEN \* "Prevent multiple initializations": return, no cleanup function
            /\ cleanup' = 0
            /\ UNCHANGED <<runs, initializingRef, handsRef, cameraRef>>
       ELSE LET r == Len(runs) + 1 IN
            /\ runs' = Append(runs, NewRun(gestureMode))
            /\ initializingRef' = TRUE
            /\ handsRef' = r
            /\ cameraRef' = r
            /\ cleanup' = r
  /\ UNCHANGED <<isInitialized, gestureMode, currentGesture, error,
                 rotationRef, zoomRef, lastHandPosRef, controls, frames,
                 frameLimit>>

\* The user turns gesture mode off: render with enabled = false (the canvas
\* unmounts), the previous effect's cleanup, then the effect's disabled branch.
Disable ==
  /\ enabled
  /\ enabled' = FALSE
  /\ lastOp' = "disable"
  /\ emitted' = 0
  /\ lastGesture' = <<>>
  /\ LET \* cleanup function (lines 111-136), if the effect returned one
         rs0 == IF cleanup # 0 THEN [runs EXCEPT ![cleanup].mounted = FALSE] ELSE runs
         rs1 == IF cleanup # 0 THEN CloseHands(StopCamera(rs0, cameraRef), handsRef) ELSE rs0
         cam1 == IF cleanup # 0 THEN 0 ELSE cameraRef
         h1 == IF cleanup # 0 THEN 0 ELSE handsRef
         \* disabled branch (lines 38-54)
         rs2 == CloseHands(StopCamera(rs1, cam1), h1)
     IN /\ runs' = rs2
        /\ cameraRef' = 0
        /\ handsRef' = 0
  /\ cleanup' = 0
  /\ isInitialized' = FALSE
  /\ currentGesture' = SHOW_YOUR_HAND
  /\ lastHandPosRef' = <<>>
  /\ initializingRef' = ResetInitializing(initializingRef)
  /\ error' = ErrorNull
  /\ UNCHANGED <<gestureMode, rotationRef, zoomRef, controls, frames, frameLimit,
                 stickyMode>>

\* a .then callback that does not look at `mounted`
StartResolvedUnguarded(r) ==
  /\ runs[r].start = "pending"
  /\ runs' = [runs EXCEPT ![r].start = "resolved"]
  /\ lastOp' = "startResolved"
  /\ emitted' = 0
  /\ lastGesture' = <<>>
  /\ isInitialized' = TRUE
  /\ initializingRef' = FALSE
  /\ error' = ErrorNull
  /\ UNCHANGED <<enabled, gestureMode, currentGesture, rotationRef, zoomRef,
                 lastHandPosRef, cameraRef, handsRef, controls, frames,
                 frameLimit, stickyMode, cleanup>>

\* camera.start() resolves: the .then callback
StartResolved(r) ==
  /\ runs[r].start = "pending"
  /\ runs' = [runs EXCEPT ![r].start = "resolved"]
  /\ lastOp' = "startResolved"
  /\ emitted' = 0
  /\ lastGesture' = <<>>
  /\ IF runs[r].mounted
       THEN /\ isInitialized' = TRUE
            /\ initializingRef' = FALSE
            /\ error' = ErrorNull
       ELSE UNCHANGED <<isInitialized, initializingRef, error>>
  /\ UNCHANGED <<enabled, gestureMode, currentGesture, rotationRef, zoomRef,
                 lastHandPosRef, cameraRef, handsRef, controls, frames,
                 frameLimit, stickyMode, cleanup>>

\* camera.start() rejects: the .catch callback
StartRejected(r) ==
  /\ runs[r].start = "pending"
  /\ runs' = [runs EXCEPT ![r].start = "rejected"]
  /\ lastOp' = "startRejected"
  /\ emitted' = 0
  /\ lastGesture' = <<>>
  /\ IF runs[r].mounted
       THEN /\ isInitialized' = FALSE
            /\ initializingRef' = FALSE
            /\ error' = CameraError
       ELSE UNCHANGED <<isInitialized, initializingRef, error>>
  /\ UNCHANGED <<enabled, gestureMode, currentGesture, rotationRef, zoomRef,
                 lastHandPosRef, cameraRef, handsRef, controls, frames,
                 frameLimit, stickyMode, cleanup>>

----------------------------------------------------------------------------
(* HandGestureController: frames *)

Max(a, b) == IF a >= b THEN a ELSE b
Min(a, b) == IF a <= b THEN a ELSE b

\* 1 / (distance * 15) in millionths, for distance = sqrt(d2) thousandths.
\* Sqrt(10000 * d2) is the distance in 1e-5 units, rounded down, so the
\* result is exact to about 1 part in Sqrt(10000 * d2) (better than 4e-4 for
\* the distances the clamp lets through).  At distance 0 the division
\* yields Infinity.
InverseDistance(d2) ==
  IF d2 = 0 THEN Infinity
  ELSE ((2000000000 \div Sqrt(10000 * d2)) * 10) \div 3

\* the pinch zoom without its upper clamp
PinchZoomNoMin(l) ==
  Max(ZoomMin, InverseDistance(Dist2(l[THUMB_TIP], l[INDEX_TIP])))

\* Math.max(0.3, Math.min(2.5, 1 / (distance * 15)))
PinchZoom(l) ==
  Max(ZoomMin, Min(ZoomMax, InverseDistance(Dist2(l[THUMB_TIP], l[INDEX_TIP]))))

\* the decay with the factor 0.97
ZoomDecaySlow(z) == (z * 97 + ZoomOne * 3) \div 100

\* zoomRef.current * 0.95 + 1.0 * 0.05, truncated to millionths
ZoomDecay(z) == (z * 95 + ZoomOne * 5) \div 100

\* zoomRef update of a hand frame (lines 199-212)
NextZoom(z, l, g) ==
  IF Includes(g.name, "Pinch") THEN PinchZoom(l) ELSE ZoomDecay(z)

\* the rotation update taking a missing previous palm for the image corner
RotateFromCorner(rot, last, palm, g) ==
  IF Includes(g.name, "Rotate") \/ Includes(g.name, "Pointing")
    THEN LET prev == IF last # <<>> THEN last[1] ELSE Pt(0, 0)
         IN [x |-> rot.x - (palm.y - prev.y) * RotationSensitivity,
             y |-> rot.y + (palm.x - prev.x) * RotationSensitivity]
    ELSE rot

\* the rotation update with rotation.x following the palm's y without the
\* sign flip
RotateUninverted(rot, last, palm, g) ==
  IF last # <<>> /\ (Includes(g.name, "Rotate") \/ Includes(g.name, "Pointing"))
    THEN [x |-> rot.x + (palm.y - last[1].y) * RotationSensitivity,
          y |-> rot.y + (palm.x - last[1].x) * RotationSensitivity]
    ELSE rot

\* rotationRef update of a hand frame (lines 185-195)
Rotate(rot, last, palm, g) ==
  IF last # <<>> /\ (Includes(g.name, "Rotate") \/ Includes(g.name, "Pointing"))
    THEN [x |-> rot.x - (palm.y - last[1].y) * RotationSensitivity,
          y |-> rot.y + (palm.x - last[1].x) * RotationSensitivity]
    ELSE rot

\* The poses the camera shows in the pipeline, one or two per classification
PosePinchTouch == [thumb |-> Pt(-20, -100), index |-> Pt(-20, -100),
                   middle |-> Pt(0, -110), ring |-> Pt(20, -100), pinky |-> Pt(40, -90)]
PoseFistPinch == [PosePinchTouch EXCEPT !.thumb = Pt(-50, -70)]
PoseFist == [PosePinchTouch EXCEPT !.thumb = Pt(-50, -40)]
PoseThumbOut == [PosePinchTouch EXCEPT !.thumb = Pt(-100, -60)]
PosePointing == [PoseFist EXCEPT !.index = Pt(-20, -180)]
PosePeace == [PosePointing EXCEPT !.middle = Pt(0, -190)]
PoseOpenPalm == [PosePeace EXCEPT !.ring = Pt(20, -180), !.pinky = Pt(40, -160)]
PoseOpenHand == [PoseOpenPalm EXCEPT !.thumb = Pt(-100, -60)]

CameraPoses == {PosePinchTouch, PoseFistPinch, PoseFist, PoseThumbOut,
                PosePointing, PosePeace, PoseOpenPalm, PoseOpenHand}
MovedOrigin == Pt(510, 680)
MovedPoses == {PoseOpenPalm, PosePointing, PoseFist}

\* What the detector can report for a frame: no hand, or one hand (every pose
\* at Origin, and three of them also with the whole hand moved by (10, -20)),
\* with an image the canvas can draw; and one hand frame whose image makes
\* canvasCtx.drawImage throw.
Results == {[multiHandLandmarks |-> <<>>, image |-> "ok"]} \cup
           {[multiHandLandmarks |-> <<Hand(Origin, p)>>, image |-> "ok"] : p \in CameraPoses} \cup
           {[multiHandLandmarks |-> <<Hand(MovedOrigin, p)>>, image |-> "ok"] : p \in MovedPoses} \cup
           {[multiHandLandmarks |-> <<Hand(MovedOrigin, PosePointing)>>, image |-> "broken"]}

\* Camera onFrame (lines 84-88): the running camera of run r delivers a frame;
\* the detector is sent the image and will answer with `res`.
OnFrame(r, res) ==
  /\ runs[r].start = "resolved" /\ ~runs[r].stopped
  /\ runs[r].pending = <<>>
  /\ frames < frameLimit
  /\ lastOp' = "onFrame"
  /\ emitted' = 0
  /\ lastGesture' = <<>>
  /\ IF enabled /\ handsRef # 0 /\ runs[r].mounted
       THEN /\ runs' = [runs EXCEPT ![handsRef].pending = <<res>>]
            /\ frames' = frames + 1
       ELSE UNCHANGED <<runs, frames>>
  /\ UNCHANGED <<enabled, isInitialized, gestureMode, currentGesture, error,
                 rotationRef, zoomRef, lastHandPosRef, initializingRef,
                 cameraRef, handsRef, controls, frameLimit, stickyMode, cleanup>>

ModeBearing(g) == g.name \in {OPEN_HAND, FIST, PEACE_SIGN}

\* a canvas that stays mounted while disabled
CanvasAlwaysMounted == TRUE

\* canvasRef.current is set exactly while the component renders its tree,
\* which `if (!enabled) return null` makes the enabled renders.
CanvasMounted == enabled

\* onResults (lines 139-230) as registered by run r: its closure holds
\* enabled = true and gestureMode = runs[r].gestureMode; the refs and the
\* state setters are the component's.
OnResults(r) ==
  /\ runs[r].pending # <<>>
  /\ runs' = [runs EXCEPT ![r].pending = <<>>]
  /\ LET res == runs[r].pending[1]
         closureMode == runs[r].gestureMode
         closureEnabled == TRUE   \* the effect body past line 54 runs only in an enabled render
     IN IF ~CanvasMounted \/ ~closureEnabled
          THEN \* if (!canvasRef.current || !enabled) return
               /\ lastOp' = "ignored"
               /\ emitted' = 0
               /\ lastGesture' = <<>>
               /\ UNCHANGED <<gestureMode, currentGesture, rotationRef, zoomRef,
                              lastHandPosRef, controls, stickyMode>>
        ELSE IF res.image = "broken"
          THEN \* drawImage throws inside the try: the catch logs and returns
               /\ lastOp' = "threw"
               /\ emitted' = 0
               /\ lastGesture' = <<>>
               /\ UNCHANGED <<gestureMode, currentGesture, rotationRef, zoomRef,
                              lastHandPosRef, controls, stickyMode>>
        ELSE IF res.multiHandLandmarks # <<>>
          THEN LET landmarks == res.multiHandLandmarks[1]
                   g == detectGesture(landmarks, closureMode)
                   palmCenter == landmarks[MIDDLE_KNUCKLE]
                   rot == Rotate(rotationRef, lastHandPosRef, palmCenter, g)
                   zoom == NextZoom(zoomRef, landmarks, g)
               IN /\ currentGesture' = g.name
                  /\ gestureMode' = IF g.mode # closureMode THEN g.mode ELSE gestureMode
                  /\ rotationRef' = rot
                  /\ lastHandPosRef' = <<Pt(palmCenter.x, palmCenter.y)>>
                  /\ zoomRef' = zoom
                  /\ controls' = <<[rotationX |-> rot.x, rotationY |-> rot.y,
                                    zoom |-> zoom, mode |-> g.mode]>>
                  /\ emitted' = 1
                  /\ lastOp' = "hand"
                  /\ lastGesture' = <<g>>
                  /\ stickyMode' = IF ModeBearing(g) THEN g.mode ELSE stickyMode
          ELSE /\ currentGesture' = SHOW_YOUR_HAND
               /\ lastHandPosRef' = <<>>
               /\ lastOp' = "nohand"
               /\ emitted' = 0
               /\ lastGesture' = <<>>
               /\ UNCHANGED <<gestureMode, rotationRef, zoomRef, controls, stickyMode>>
  /\ UNCHANGED <<enabled, isInitialized, error, initializingRef, cameraRef,
                 handsRef, frames, frameLimit, cleanup>>

----------------------------------------------------------------------------
(* The zoom over successive non-pinch hand frames *)

\* The zoom values a pinch can leave behind, and the initial zoom
PinchZooms ==
  {PinchZoom(Hand(Origin, p)) : p \in {q \in Poses :
      Includes(detectGesture(Hand(Origin, q), "normal").name, "Pinch")}}

DecayInit ==
  /\ dz \in PinchZooms \cup {ZoomOne}
  /\ dprev = dz
  /\ dn = 0

\* One hand frame that is not a pinch: the zoom update of onResults
NonPinchFrame(p) ==
  /\ dn < MaxDecayFrames
  /\ LET l == Hand(Origin, p)
         g == detectGesture(l, "normal")
     IN /\ ~Includes(g.name, "Pinch")
        /\ dz' = NextZoom(dz, l, g)
  /\ dprev' = dz
  /\ dn' = dn + 1

DecayIdle ==
  /\ dz = ZoomOne
  /\ dprev = ZoomOne
  /\ dn = 0

----------------------------------------------------------------------------
(* Viewer *)

\* The base scale of the asset, in tenths: 1000 for the heart, 0.1 for the brain
BaseScale(organ) == IF organ = "brain" THEN BrainScale ELSE HeartScale

\* ControlSignals the parent may pass as the gestureControls prop
Signals == {[rotationX |-> 100, rotationY |-> -200, zoom |-> ZoomMax, mode |-> "normal"],
            [rotationX |-> -300, rotationY |-> 400, zoom |-> 1200000, mode |-> "dissection"]}
MousePositions == {Pt(0, 0), Pt(3, -2)}

ViewInit ==
  /\ gestureEnabledRef = FALSE
  /\ gestureControlsRef = <<>>
  /\ selectedOrgan \in {"heart", "brain"}
  /\ sceneReady = FALSE
  /\ meshLoaded = FALSE
  /\ meshRotation = Pt(0, 0)
  /\ meshScale = [base |-> BaseScale(selectedOrgan), zoom |-> ZoomOne]
  /\ isDragging = FALSE
  /\ previousMousePosition = Pt(0, 0)
  /\ ticks = 0
  /\ vLastOp = "mount"

\* a flag change that puts the model back to its loading orientation when
\* gestures are turned off
SetGestureEnabledResetting(b) ==
  /\ gestureEnabledRef # b
  /\ gestureEnabledRef' = b
  /\ vLastOp' = "setEnabled"
  /\ meshRotation' = IF b THEN meshRotation ELSE Pt(0, 0)
  /\ UNCHANGED <<gestureControlsRef, selectedOrgan, sceneReady, meshLoaded,
                 meshScale, isDragging, previousMousePosition, ticks>>

\* useEffect([gestureEnabledProp]) after a render with a new prop value
SetGestureEnabled(b) ==
  /\ gestureEnabledRef # b
  /\ gestureEnabledRef' = b
  /\ vLastOp' = "setEnabled"
  /\ UNCHANGED <<gestureControlsRef, selectedOrgan, sceneReady, meshLoaded,
                 meshRotation, meshScale, isDragging, previousMousePosition, ticks>>

\* useEffect([gestureControlsProp]) after a render with a new prop value
SetGestureControls(c) ==
  /\ gestureControlsRef # c
  /\ gestureControlsRef' = c
  /\ vLastOp' = "setControls"
  /\ UNCHANGED <<gestureEnabledRef, selectedOrgan, sceneReady, meshLoaded,
                 meshRotation, meshScale, isDragging, previousMousePosition, ticks>>

\* import('./three') resolves: scene, listeners and render loop are set up
\* (the first animate() call finds no model yet)
SceneSetup ==
  /\ ~sceneReady
  /\ sceneReady' = TRUE
  /\ isDragging' = FALSE
  /\ previousMousePosition' = Pt(0, 0)
  /\ vLastOp' = "setup"
  /\ UNCHANGED <<gestureEnabledRef, gestureControlsRef, selectedOrgan, meshLoaded,
                 meshRotation, meshScale, ticks>>

\* loader.load success callback
ModelLoaded ==
  /\ sceneReady /\ ~meshLoaded
  /\ meshLoaded' = TRUE
  /\ meshRotation' = Pt(0, 0)
  /\ meshScale' = [base |-> BaseScale(selectedOrgan), zoom |-> ZoomOne]
  /\ vLastOp' = "loaded"
  /\ UNCHANGED <<gestureEnabledRef, gestureControlsRef, selectedOrgan, sceneReady,
                 isDragging, previousMousePosition, ticks>>

onMouseDown(e) ==
  /\ sceneReady
  /\ vLastOp' = "mousedown"
  /\ IF gestureEnabledRef
       THEN UNCHANGED <<isDragging, previousMousePosition>>
       ELSE /\ isDragging' = TRUE
            /\ previousMousePosition' = Pt(e.x, e.y)
  /\ UNCHANGED <<gestureEnabledRef, gestureControlsRef, selectedOrgan, sceneReady,
                 meshLoaded, meshRotation, meshScale, ticks>>

\* a mouse move that drags whenever a drag is in progress
onMouseMoveUngated(e) ==
  /\ sceneReady
  /\ ticks < MaxTicks
  /\ ticks' = ticks + 1
  /\ vLastOp' = "mousemove"
  /\ IF ~isDragging \/ ~meshLoaded
       THEN UNCHANGED <<meshRotation, previousMousePosition>>
       ELSE /\ meshRotation' =
                 [x |-> meshRotation.x + (e.y - previousMousePosition.y) * DragSensitivity,
                  y |-> meshRotation.y + (e.x - previousMousePosition.x) * DragSensitivity]
            /\ previousMousePosition' = Pt(e.x, e.y)
  /\ UNCHANGED <<gestureEnabledRef, gestureControlsRef, selectedOrgan, sceneReady,
                 meshLoaded, meshScale, isDragging>>

onMouseMove(e) ==
  /\ sceneReady
  /\ ticks < MaxTicks
  /\ ticks' = ticks + 1
  /\ vLastOp' = "mousemove"
  /\ IF gestureEnabledRef \/ ~isDragging \/ ~meshLoaded
       THEN UNCHANGED <<meshRotation, previousMousePosition>>
       ELSE /\ meshRotation' =
                 [x |-> meshRotation.x + (e.y - previousMousePosition.y) * DragSensitivity,
                  y |-> meshRotation.y + (e.x - previousMousePosition.x) * DragSensitivity]
            /\ previousMousePosition' = Pt(e.x, e.y)
  /\ UNCHANGED <<gestureEnabledRef, gestureControlsRef, selectedOrgan, sceneReady,
                 meshLoaded, meshScale, isDragging>>

onMouseUp ==
  /\ sceneReady
  /\ isDragging' = FALSE
  /\ vLastOp' = "mouseup"
  /\ UNCHANGED <<gestureEnabledRef, gestureControlsRef, selectedOrgan, sceneReady,
                 meshLoaded, meshRotation, meshScale, previousMousePosition, ticks>>

\* a render tick that applies the signal whenever one is held
animateUngated ==
  /\ sceneReady
  /\ ticks < MaxTicks
  /\ ticks' = ticks + 1
  /\ vLastOp' = "animate"
  /\ LET autoRotate == ~gestureEnabledRef /\ ~isDragging
     IN IF gestureControlsRef # <<>> /\ meshLoaded
          THEN /\ meshRotation' = Pt(gestureControlsRef[1].rotationX,
                                     gestureControlsRef[1].rotationY)
               /\ meshScale' = [base |-> BaseScale(selectedOrgan),
                                zoom |-> gestureControlsRef[1].zoom]
        ELSE IF meshLoaded /\ autoRotate
          THEN /\ meshRotation' = [meshRotation EXCEPT !.y = @ + AutoRotateStep]
               /\ UNCHANGED meshScale
        ELSE UNCHANGED <<meshRotation, meshScale>>
  /\ UNCHANGED <<gestureEnabledRef, gestureControlsRef, selectedOrgan, sceneReady,
                 meshLoaded, isDragging, previousMousePosition>>

\* a render tick that adds the signal's rotation to the model's
animateAdditive ==
  /\ sceneReady
  /\ ticks < MaxTicks
  /\ ticks' = ticks + 1
  /\ vLastOp' = "animate"
  /\ LET autoRotate == ~gestureEnabledRef /\ ~isDragging
     IN IF gestureEnabledRef /\ gestureControlsRef # <<>> /\ meshLoaded
          THEN /\ meshRotation' = Pt(meshRotation.x + gestureControlsRef[1].rotationX,
                                     meshRotation.y + gestureControlsRef[1].rotationY)
               /\ meshScale' = [base |-> BaseScale(selectedOrgan),
                                zoom |-> gestureControlsRef[1].zoom]
        ELSE IF meshLoaded /\ autoRotate
          THEN /\ meshRotation' = [meshRotation EXCEPT !.y = @ + AutoRotateStep]
               /\ UNCHANGED meshScale
        ELSE UNCHANGED <<meshRotation, meshScale>>
  /\ UNCHANGED <<gestureEnabledRef, gestureControlsRef, selectedOrgan, sceneReady,
                 meshLoaded, isDragging, previousMousePosition>>

\* one render tick (lines 152-175)
animate ==
  /\ sceneReady
  /\ ticks < MaxTicks
  /\ ticks' = ticks + 1
  /\ vLastOp' = "animate"
  /\ LET autoRotate == ~gestureEnabledRef /\ ~isDragging
     IN IF gestureEnabledRef /\ gestureControlsRef # <<>> /\ meshLoaded
          THEN /\ meshRotation' = Pt(gestureControlsRef[1].rotationX,
                                     gestureControlsRef[1].rotationY)
               /\ meshScale' = [base |-> BaseScale(selectedOrgan),
                                zoom |-> gestureControlsRef[1].zoom]
        ELSE IF meshLoaded /\ autoRotate
          THEN /\ meshRotation' = [meshRotation EXCEPT !.y = @ + AutoRotateStep]
               /\ UNCHANGED meshScale
        ELSE UNCHANGED <<meshRotation, meshScale>>
  /\ UNCHANGED <<gestureEnabledRef, gestureControlsRef, selectedOrgan, sceneReady,
                 meshLoaded, isDragging, previousMousePosition>>

\* the Viewer when only the controller is looked at
ViewIdle ==
  /\ ViewInit
  /\ selectedOrgan = "heart"

----------------------------------------------------------------------------
(* Viewer: the [mode, selectedOrgan] effect *)

\* One run of the effect: its `mounted`, its import('./three') promise, and
\* what its scene setup holds (the WebGLRenderer, the mouse and resize
\* listeners, the requestAnimationFrame chain and the frames it has rendered)
NewEffect ==
  [mounted |-> TRUE, import |-> "pending", renderer |-> "none",
   listeners |-> FALSE, loop |-> FALSE, rendered |-> 0]

\* The component has mounted and its effect has run once
SceneInit ==
  /\ viewerMounted = TRUE
  /\ effects = <<NewEffect>>
  /\ cleanupRef = 0

\* cleanupRef.current() of run k (lines 190-204): listeners removed,
\* cancelAnimationFrame(animationId), renderer.dispose()
RunCleanup(es, k) ==
  IF k # 0
    THEN [es EXCEPT ![k].listeners = FALSE, ![k].loop = FALSE,
                    ![k].renderer = "disposed"]
    ELSE es

\* The cleanup the effect returns (lines 210-216), for the latest run
EffectCleanup(es) ==
  RunCleanup([es EXCEPT ![Len(es)].mounted = FALSE], cleanupRef)

\* mode or selectedOrgan changes: the latest run's cleanup, then a new run
PropsChange ==
  /\ viewerMounted
  /\ Len(effects) < MaxEffects
  /\ effects' = Append(EffectCleanup(effects), NewEffect)
  /\ cleanupRef' = 0
  /\ UNCHANGED viewerMounted

\* The component unmounts: the latest run's cleanup
Unmount ==
  /\ viewerMounted
  /\ viewerMounted' = FALSE
  /\ effects' = EffectCleanup(effects)
  /\ cleanupRef' = 0

\* a .then callback that sets the scene up whether or not its run is mounted
ImportResolvedUnguarded(k) ==
  /\ effects[k].import = "pending"
  /\ effects' = [effects EXCEPT ![k].import = "resolved", ![k].renderer = "live",
                                ![k].listeners = TRUE, ![k].loop = TRUE]
  /\ cleanupRef' = k
  /\ UNCHANGED viewerMounted

\* import('./three') of run k resolves: the .then callback (lines 49-205).
\* containerRef.current is set while the component is mounted.
ImportResolved(k) ==
  /\ effects[k].import = "pending"
  /\ IF ~effects[k].mounted \/ ~viewerMounted
       THEN /\ effects' = [effects EXCEPT ![k].import = "resolved"]
            /\ UNCHANGED cleanupRef
       ELSE \* renderer made, listeners added, animate() called,
            \* cleanupRef.current assigned
            /\ effects' = [effects EXCEPT ![k].import = "resolved",
                                          ![k].renderer = "live",
                                          ![k].listeners = TRUE, ![k].loop = TRUE]
            /\ cleanupRef' = k
  /\ UNCHANGED viewerMounted

\* import('./three') of run k rejects: the .catch callback (lines 206-209)
ImportRejected(k) ==
  /\ effects[k].import = "pending"
  /\ effects' = [effects EXCEPT ![k].import = "rejected"]
  /\ UNCHANGED <<viewerMounted, cleanupRef>>

\* The browser runs the frame requested by run k's animate, which requests
\* the next one and renders
AnimationFrame(k) ==
  /\ effects[k].loop
  /\ effects[k].rendered < MaxLoopFrames
  /\ effects' = [effects EXCEPT ![k].rendered = @ + 1]
  /\ UNCHANGED <<viewerMounted, cleanupRef>>

----------------------------------------------------------------------------
(* Specifications *)

ClassIdle ==
  /\ lm = Hand(Origin, PoseFist)
  /\ gmode = "normal"
  /\ gesture = <<>>

\* The frames looked at together with enabling and disabling: no hand, the
\* two pinches, a fist and an open hand at Origin, a palm at MovedOrigin, and
\* the frame whose image cannot be drawn
LifecycleResults ==
  {res \in Results :
     \/ res.multiHandLandmarks = <<>>
     \/ res.image = "broken"
     \/ res.multiHandLandmarks[1] \in
          {Hand(Origin, PosePinchTouch), Hand(Origin, PoseFistPinch),
           Hand(Origin, PoseFist), Hand(Origin, PoseOpenHand),
           Hand(MovedOrigin, PoseOpenPalm)}}

Init == CtrlInit /\ ClassIdle /\ DecayIdle /\ ViewIdle /\ SceneInit

Next ==
  \/ Enable /\ UNCHANGED <<classVars, decayVars, viewVars, sceneVars>>
  \/ Disable /\ UNCHANGED <<classVars, decayVars, viewVars, sceneVars>>
  \/ \E r \in DOMAIN runs : StartResolved(r) /\ UNCHANGED <<classVars, decayVars, viewVars, sceneVars>>
  \/ \E r \in DOMAIN runs : StartRejected(r) /\ UNCHANGED <<classVars, decayVars, viewVars, sceneVars>>
  \/ \E r \in DOMAIN runs, res \in LifecycleResults :
        OnFrame(r, res) /\ UNCHANGED <<classVars, decayVars, viewVars, sceneVars>>
  \/ \E r \in DOMAIN runs : OnResults(r) /\ UNCHANGED <<classVars, decayVars, viewVars, sceneVars>>

Spec == Init /\ [][Next]_vars

\* One session: gesture mode was enabled on the fresh component and the camera
\* has started (the state Enable and StartResolved(1) lead to from CtrlInit);
\* from there only frames arrive.
SessionInit ==
  /\ enabled = TRUE
  /\ isInitialized = TRUE
  /\ gestureMode = "normal"
  /\ currentGesture = SHOW_YOUR_HAND
  /\ error = ErrorNull
  /\ rotationRef = Pt(0, 0)
  /\ zoomRef = ZoomOne
  /\ lastHandPosRef = <<>>
  /\ initializingRef = FALSE
  /\ cameraRef = 1
  /\ handsRef = 1
  /\ runs = <<[NewRun("normal") EXCEPT !.start = "resolved"]>>
  /\ controls = <<>>
  /\ frames = 0
  /\ frameLimit = MaxSessionFrames
  /\ lastOp = "startResolved"
  /\ emitted = 0
  /\ lastGesture = <<>>
  /\ stickyMode = "normal"
  /\ cleanup = 1

InitSession == SessionInit /\ ClassIdle /\ DecayIdle /\ ViewIdle /\ SceneInit

NextSession ==
  \/ \E r \in DOMAIN runs, res \in Results :
        OnFrame(r, res) /\ UNCHANGED <<classVars, decayVars, viewVars, sceneVars>>
  \/ \E r \in DOMAIN runs : OnResults(r) /\ UNCHANGED <<classVars, decayVars, viewVars, sceneVars>>

SpecSession == InitSession /\ [][NextSession]_vars

InitClassify == CtrlInit /\ ClassifyInit /\ DecayIdle /\ ViewIdle /\ SceneInit

NextClassify ==
  \/ Classify /\ UNCHANGED <<ctrlVars, decayVars, viewVars, sceneVars>>
  \/ NextLandmarks /\ UNCHANGED <<ctrlVars, decayVars, viewVars, sceneVars>>

SpecClassify == InitClassify /\ [][NextClassify]_vars

InitDecay == CtrlInit /\ ClassIdle /\ DecayInit /\ ViewIdle /\ SceneInit

NextDecay ==
  \E p \in CameraPoses : NonPinchFrame(p) /\ UNCHANGED <<ctrlVars, classVars, viewVars, sceneVars>>

SpecDecay == InitDecay /\ [][NextDecay]_vars

InitViewer == CtrlInit /\ ClassIdle /\ DecayIdle /\ ViewInit /\ SceneInit

NextViewer ==
  \/ \E b \in BOOLEAN : SetGestureEnabled(b) /\ UNCHANGED <<ctrlVars, classVars, decayVars, sceneVars>>
  \/ \E c \in {<<>>} \cup {<<c>> : c \in Signals} :
        SetGestureControls(c) /\ UNCHANGED <<ctrlVars, classVars, decayVars, sceneVars>>
  \/ SceneSetup /\ UNCHANGED <<ctrlVars, classVars, decayVars, sceneVars>>
  \/ ModelLoaded /\ UNCHANGED <<ctrlVars, classVars, decayVars, sceneVars>>
  \/ \E e \in MousePositions : onMouseDown(e) /\ UNCHANGED <<ctrlVars, classVars, decayVars, sceneVars>>
  \/ \E e \in MousePositions : onMouseMove(e) /\ UNCHANGED <<ctrlVars, classVars, decayVars, sceneVars>>
  \/ onMouseUp /\ UNCHANGED <<ctrlVars, classVars, decayVars, sceneVars>>
  \/ animate /\ UNCHANGED <<ctrlVars, classVars, decayVars, sceneVars>>

SpecViewer == InitViewer /\ [][NextViewer]_vars

InitScene == CtrlInit /\ ClassIdle /\ DecayIdle /\ ViewIdle /\ SceneInit

NextScene ==
  \/ PropsChange /\ UNCHANGED <<ctrlVars, classVars, decayVars, viewVars>>
  \/ Unmount /\ UNCHANGED <<ctrlVars, classVars, decayVars, viewVars>>
  \/ \E k \in DOMAIN effects :
        ImportResolved(k) /\ UNCHANGED <<ctrlVars, classVars, decayVars, viewVars>>
  \/ \E k \in DOMAIN effects :
        ImportRejected(k) /\ UNCHANGED <<ctrlVars, classVars, decayVars, viewVars>>
  \/ \E k \in DOMAIN effects :
        AnimationFrame(k) /\ UNCHANGED <<ctrlVars, classVars, decayVars, viewVars>>

SpecScene == InitScene /\ [][NextScene]_vars

----------------------------------------------------------------------------
(* Claims *)

Abs(a) == IF a >= 0 THEN a ELSE 0 - a
InRange(z) == ZoomMin <= z /\ z <= ZoomMax
Pending == {r \in DOMAIN runs : runs[r].start = "pending"}

\* C1 (as claimed): the mode emitted for a hand frame that is not mode-bearing
\* (Pinch, OpenPalmRotate, PointingRotate, Unrecognized) is the mode of the
\* latest mode-bearing frame of the session, or the session's starting mode.
C1_StickyModeFollowsLastModeBearing ==
  (lastOp = "hand" /\ ~ModeBearing(lastGesture[1])) => controls[1].mode = stickyMode

\* C2 (as claimed): no finger and no thumb extended gives Fist with mode
\* normal, whatever the closed-over mode and the thumb-index distance.
C2_FistWhateverPinchDistance ==
  (gesture # <<>> /\ extendedCount(lm) = 0 /\ ~thumbExtended(lm))
     => gesture[1] = [name |-> FIST, mode |-> "normal"]

\* C2 (amended): no finger and no thumb extended, and the thumb tip at least
\* 0.06 from the index tip, gives Fist with mode normal, whatever the
\* closed-over mode.
C2_FistUnlessPinch ==
  (gesture # <<>> /\ extendedCount(lm) = 0 /\ ~thumbExtended(lm) /\ ~pinchClose(lm))
     => gesture[1] = [name |-> FIST, mode |-> "normal"]

C2_Witness ==
  /\ gesture # <<>> /\ gmode = "pathology"
  /\ extendedCount(lm) = 0 /\ ~thumbExtended(lm) /\ ~pinchClose(lm)

\* C3 (as claimed): every frame processed by onResults, with or without a
\* hand, makes exactly one onGestureChange call.
C3_OneSignalPerFrame ==
  lastOp \in {"hand", "nohand"} => emitted = 1

\* C4: the zoom held by the interpreter and the zoom of the signal held by the
\* parent are always within [0.3, 2.5].
C4_ZoomInRange ==
  /\ InRange(zoomRef)
  /\ controls # <<>> => InRange(controls[1].zoom)

\* a pinch with thumb tip on index tip (distance 0) has been processed
C4_Witness ==
  /\ lastOp = "hand" /\ lastGesture[1].name = PINCH
  /\ zoomRef = ZoomMax /\ controls[1].zoom = ZoomMax

\* C5 (as claimed): over non-pinch hand frames |zoom - 1| never increases,
\* and after 90 frames the zoom is within 0.01 of 1.
C5_DecayWithin90 ==
  /\ Abs(dz - ZoomOne) <= Abs(dprev - ZoomOne)
  /\ dn >= 90 => Abs(dz - ZoomOne) <= ZoomOne \div 100

\* C5 (amended): over non-pinch hand frames |zoom - 1| never increases, and
\* after 98 frames the zoom is within 0.01 of 1.
C5_DecayWithin98 ==
  /\ Abs(dz - ZoomOne) <= Abs(dprev - ZoomOne)
  /\ dn >= 98 => Abs(dz - ZoomOne) <= ZoomOne \div 100

C5_Witness ==
  /\ dn = 98 /\ dz > ZoomOne /\ dz < dprev

\* C6: while gesture mode is disabled every camera created so far has been
\* stopped, every detector closed, and both refs are null.
C6_TeardownOnDisable ==
  ~enabled =>
     /\ \A r \in DOMAIN runs : runs[r].stopped /\ runs[r].closed
     /\ cameraRef = 0 /\ handsRef = 0

\* gesture mode was turned off while the camera was still starting
C6_Witness ==
  /\ lastOp = "disable" /\ ~enabled
  /\ runs # <<>> /\ runs[Len(runs)].start = "pending"

\* C7: a render tick taken while the gesture-enabled flag is false leaves the
\* model's scale and rotation.x alone and changes rotation.y by nothing or by
\* the idle auto-rotation step, whatever signal is held.
C7_TickIgnoresSignalWhenDisabled ==
  [][(vLastOp' = "animate" /\ ~gestureEnabledRef) =>
        /\ meshScale' = meshScale
        /\ meshRotation'.x = meshRotation.x
        /\ meshRotation'.y \in {meshRotation.y, meshRotation.y + AutoRotateStep}]_vars

\* a tick ran on a loaded model with the flag false and a signal still held
\* whose pose the model does not have
C7_Witness ==
  /\ vLastOp = "animate" /\ ~gestureEnabledRef /\ meshLoaded
  /\ gestureControlsRef # <<>>
  /\ meshRotation.x # gestureControlsRef[1].rotationX
  /\ meshScale.zoom # gestureControlsRef[1].zoom

C9_OneInitializationInFlight ==
  Cardinality(Pending) <= 1

\* C10 (as claimed): right after gesture mode is enabled again the accumulated
\* rotation is (0, 0), the zoom is 1 and there is no last palm position.
C10_FreshStateOnReenable ==
  (lastOp = "enable" /\ Len(runs) >= 2) =>
     /\ rotationRef = Pt(0, 0)
     /\ zoomRef = ZoomOne
     /\ lastHandPosRef = <<>>

----------------------------------------------------------------------------
(* Claims on the rotation integrator *)

\* C11: a hand frame processed while no previous palm position is stored
\* leaves the accumulated rotation as it was, whatever its classification and
\* wherever the palm is.
C11_NoDeltaWithoutPreviousPalm ==
  [][(lastOp' = "hand" /\ lastHandPosRef = <<>>) => rotationRef' = rotationRef]_vars

\* the third frame, a palm at MovedOrigin, was processed and the rotation is
\* still (0, 0); the zoom, one decay step from a pinch at distance 0, tells
\* that the frames before it were that pinch (at Origin) and a no-hand frame
C11_Witness ==
  /\ lastOp = "hand" /\ frames = 3
  /\ Includes(lastGesture[1].name, "Rotate")
  /\ lastHandPosRef = <<Hand(MovedOrigin, PoseOpenPalm)[MIDDLE_KNUCKLE]>>
  /\ rotationRef = Pt(0, 0)
  /\ zoomRef = ZoomDecay(ZoomMax)

\* C12: a hand frame stores its palm position (landmark 9); when a previous
\* palm position is stored, the frame adds 10 * dx to rotation.y and takes
\* 10 * dy from rotation.x if it is classified OpenPalmRotate or
\* PointingRotate, and leaves the rotation alone otherwise, (dx, dy) being the
\* palm position minus the stored one.
C12_ExactDeltaFromPreviousPalm ==
  [][lastOp' = "hand" =>
       \E r \in DOMAIN runs :
         /\ runs[r].pending # <<>> /\ runs'[r].pending = <<>>
         /\ LET palm == runs[r].pending[1].multiHandLandmarks[1][MIDDLE_KNUCKLE]
                rotating == lastGesture'[1].name \in {OPEN_PALM, POINTING}
            IN /\ lastHandPosRef' = <<palm>>
               /\ lastHandPosRef # <<>> =>
                     rotationRef' =
                       IF rotating
                         THEN [x |-> rotationRef.x - 10 * (palm.y - lastHandPosRef[1].y),
                               y |-> rotationRef.y + 10 * (palm.x - lastHandPosRef[1].x)]
                         ELSE rotationRef]_vars

\* the second frame, pointing with the palm at MovedOrigin, turned the model
\* by the palm's move of (10, -20) from the first frame's palm at Origin
C12_Witness ==
  /\ lastOp = "hand" /\ frames = 2
  /\ lastGesture[1].name = POINTING
  /\ lastHandPosRef = <<Hand(MovedOrigin, PosePointing)[MIDDLE_KNUCKLE]>>
  /\ rotationRef = Pt(200, 100)

\* C13 (as claimed): a frame in which no hand is detected moves the zoom
\* toward 1 by zoom' = zoom * 0.95 + 0.05.
C13_NoHandFrameDecaysZoom ==
  [][lastOp' = "nohand" => zoomRef' = ZoomDecay(zoomRef)]_vars

\* C14 (as claimed): after a frame whose handling threw, no last palm
\* position is stored, as after a no-hand frame.
C14_FailedFrameClearsPalm ==
  lastOp = "threw" => lastHandPosRef = <<>>

----------------------------------------------------------------------------
(* Claims on a failed camera start *)

\* camera.start() has failed in the current enabled period
Failed == enabled /\ error = CameraError

\* C15 (as claimed): from the failure of camera.start() until gesture mode is
\* turned off the error stays set, isInitialized stays false and no
\* onGestureChange call is made; turning gesture mode off clears the error;
\* turning it on again starts a new initialization.
C15_FailedStartIsQuietUntilToggled ==
  [][/\ (Failed /\ enabled') =>
          /\ error' = CameraError
          /\ ~isInitialized'
          /\ emitted' = 0
     /\ lastOp' = "disable" => error' = ErrorNull
     /\ lastOp' = "enable" =>
          /\ Len(runs') = Len(runs) + 1
          /\ runs'[Len(runs')].start = "pending"
          /\ initializingRef']_vars

\* C15 without the onGestureChange part: the error stays set and isInitialized
\* stays false until gesture mode is turned off, turning it off clears the
\* error, and turning it on again starts a new initialization.
C15_ErrorPersistsAndRetryStarts ==
  [][/\ (Failed /\ enabled') =>
          /\ error' = CameraError
          /\ ~isInitialized'
     /\ lastOp' = "disable" => error' = ErrorNull
     /\ lastOp' = "enable" =>
          /\ Len(runs') = Len(runs) + 1
          /\ runs'[Len(runs')].start = "pending"
          /\ initializingRef']_vars

----------------------------------------------------------------------------
(* Claims on the classifier *)

\* C17: a landmark set with the thumb and all four fingers extended is
\* classified Dissection with mode dissection, whatever the closed-over mode
\* and the thumb-index distance.
C17_FiveFingersDissection ==
  (/\ gesture # <<>>
   /\ thumbExtended(lm) /\ indexExtended(lm) /\ middleExtended(lm)
   /\ ringExtended(lm) /\ pinkyExtended(lm))
     => gesture[1] = [name |-> OPEN_HAND, mode |-> "dissection"]

\* an open hand under closed-over mode pathology, the extended thumb's tip
\* closer than 0.06 to the index tip
C17_Witness ==
  /\ gesture # <<>> /\ gmode = "pathology" /\ pinchClose(lm)
  /\ thumbExtended(lm) /\ indexExtended(lm) /\ middleExtended(lm)
  /\ ringExtended(lm) /\ pinkyExtended(lm)

\* C18: a landmark set with index and middle extended and ring, pinky and
\* thumb not extended is classified Pathology with mode pathology, whatever
\* the closed-over mode and the thumb-index distance.
C18_PeaceSignPathology ==
  (/\ gesture # <<>>
   /\ indexExtended(lm) /\ middleExtended(lm)
   /\ ~ringExtended(lm) /\ ~pinkyExtended(lm) /\ ~thumbExtended(lm))
     => gesture[1] = [name |-> PEACE_SIGN, mode |-> "pathology"]

\* a peace sign under closed-over mode dissection, the retracted thumb's tip
\* closer than 0.06 to the index tip
C18_Witness ==
  /\ gesture # <<>> /\ gmode = "dissection" /\ pinchClose(lm)
  /\ indexExtended(lm) /\ middleExtended(lm)
  /\ ~ringExtended(lm) /\ ~pinkyExtended(lm) /\ ~thumbExtended(lm)

\* C19 (as claimed): a landmark set with the thumb tip closer than 0.06 to the
\* index tip and at least three of the four fingers extended is classified
\* OpenPalmRotate, whatever the thumb.
C19_PinchCloseOpenHandIsPalm ==
  (gesture # <<>> /\ pinchClose(lm) /\ extendedCount(lm) >= 3)
     => gesture[1].name = OPEN_PALM

\* C19 (amended): such a landmark set is never classified Pinch: it is
\* Dissection when all four fingers and the thumb are extended, and
\* OpenPalmRotate with the closed-over mode otherwise.
C19_PinchCloseOpenHandNeverPinch ==
  (gesture # <<>> /\ pinchClose(lm) /\ extendedCount(lm) >= 3)
     => gesture[1] = IF extendedCount(lm) = 4 /\ thumbExtended(lm)
                       THEN [name |-> OPEN_HAND, mode |-> "dissection"]
                       ELSE [name |-> OPEN_PALM, mode |-> gmode]

\* index, middle and ring extended, the retracted thumb's tip closer than
\* 0.06 to the index tip
C19_Witness ==
  /\ gesture # <<>> /\ pinchClose(lm)
  /\ extendedCount(lm) = 3 /\ ~pinkyExtended(lm) /\ ~thumbExtended(lm)

----------------------------------------------------------------------------
(* Claims on the Viewer *)

\* C16: a render tick or mouse event taken while the gesture-enabled flag is
\* true leaves the model's rotation as it was, except that a tick with a
\* signal held and the model loaded sets it to the signal's rotation: no idle
\* auto-rotation step and no pointer drag is applied.
C16_GesturesExcludeIdleAndDrag ==
  [][(gestureEnabledRef /\ vLastOp' \in {"animate", "mousedown", "mousemove", "mouseup"}) =>
        meshRotation' =
          IF vLastOp' = "animate" /\ gestureControlsRef # <<>> /\ meshLoaded
            THEN Pt(gestureControlsRef[1].rotationX, gestureControlsRef[1].rotationY)
            ELSE meshRotation]_vars

\* the mouse moved over the loaded model with the flag true, no signal
\* received yet and a drag still in progress from before gestures were enabled
C16_Witness ==
  /\ vLastOp = "mousemove" /\ gestureEnabledRef /\ meshLoaded
  /\ isDragging /\ gestureControlsRef = <<>>

\* C20: a render tick taken with the gesture-enabled flag true, a signal held
\* and the model loaded makes the model's rotation the signal's rotationX and
\* rotationY, whatever it was; and such a tick coming right after another tick
\* (the same signal applied again) leaves rotation and scale as they are.
C20_TickAppliesSignalAbsolutely ==
  [][(vLastOp' = "animate" /\ gestureEnabledRef /\ gestureControlsRef # <<>> /\ meshLoaded) =>
        /\ meshRotation' = Pt(gestureControlsRef[1].rotationX,
                               gestureControlsRef[1].rotationY)
        /\ vLastOp = "animate" =>
              meshRotation' = meshRotation /\ meshScale' = meshScale]_vars

\* a second tick in a row applied the signal the model already followed
C20_Witness ==
  /\ vLastOp = "animate" /\ ticks >= 2
  /\ gestureEnabledRef /\ gestureControlsRef # <<>> /\ meshLoaded
  /\ meshRotation = Pt(gestureControlsRef[1].rotationX, gestureControlsRef[1].rotationY)
  /\ meshScale.zoom = gestureControlsRef[1].zoom

\* C21: the change of the gesture-enabled flag leaves the model's rotation as
\* the last tick left it; the first tick after the flag went to false leaves
\* rotation.x alone and adds nothing or the idle auto-rotation step to
\* rotation.y; and a drag move made with the flag false adds the pointer's
\* move, scaled, to the rotation the model has.
C21_OrientationKeptOnDisable ==
  [][/\ vLastOp' = "setEnabled" => meshRotation' = meshRotation
     /\ (vLastOp = "setEnabled" /\ ~gestureEnabledRef /\ vLastOp' = "animate") =>
          /\ meshRotation'.x = meshRotation.x
          /\ meshRotation'.y \in {meshRotation.y, meshRotation.y + AutoRotateStep}
     /\ (vLastOp' = "mousemove" /\ ~gestureEnabledRef /\ isDragging /\ meshLoaded) =>
          meshRotation' =
            [x |-> meshRotation.x
                   + (previousMousePosition'.y - previousMousePosition.y) * DragSensitivity,
             y |-> meshRotation.y
                   + (previousMousePosition'.x - previousMousePosition.x) * DragSensitivity]]_vars

\* with the flag false again, the model is at the held signal's rotation plus
\* one idle step plus a drag from (0, 0) to (3, -2)
C21_Witness ==
  /\ vLastOp = "mousemove" /\ ~gestureEnabledRef /\ meshLoaded /\ isDragging
  /\ gestureControlsRef # <<>>
  /\ previousMousePosition = Pt(3, -2)
  /\ meshRotation = Pt(gestureControlsRef[1].rotationX - 2 * DragSensitivity,
                       gestureControlsRef[1].rotationY + AutoRotateStep
                         + 3 * DragSensitivity)

----------------------------------------------------------------------------
(* Claims on the overlay and on stale callbacks *)

\* C22 (as claimed): after a processed hand frame the gestureMode state, which
\* the overlay shows, is the mode of the signal emitted for that frame.
C22_OverlayModeIsEmittedMode ==
  lastOp = "hand" => gestureMode = controls[1].mode

\* run r of the effect has been torn down by a disable
TornDown(r) == r < Len(runs) \/ ~enabled

\* C23: when the camera.start() promise of a torn-down run settles, either
\* way, isInitialized, error and initializingRef stay as they are.
C23_StaleStartOutcomeIgnored ==
  [][\A r \in DOMAIN runs :
       (runs[r].start = "pending" /\ runs'[r].start # "pending" /\ TornDown(r)) =>
          /\ isInitialized' = isInitialized
          /\ error' = error
          /\ initializingRef' = initializingRef]_vars

\* the first run's camera start succeeded after gesture mode was re-enabled,
\* while the second run's start is still pending
C23_Witness ==
  /\ lastOp = "startResolved" /\ enabled /\ Len(runs) = 2
  /\ runs[1].start = "resolved" /\ runs[2].start = "pending"
  /\ ~isInitialized /\ initializingRef /\ error = ErrorNull

----------------------------------------------------------------------------
(* Claims on the Viewer's scene effect *)

\* the runs whose requestAnimationFrame chain is active
ActiveLoops == {k \in DOMAIN effects : effects[k].loop}

\* run k's cleanup has run
CleanedUp(k) == k < Len(effects) \/ ~viewerMounted

\* C24: at most one render loop is active at any time, and when the import of
\* a run whose effect was already cleaned up resolves, that run starts no
\* render loop and registers no listeners.
C24_OneRenderLoop ==
  [][/\ Cardinality({k \in DOMAIN effects' : effects'[k].loop}) <= 1
     /\ \A k \in DOMAIN effects :
          (effects[k].import = "pending" /\ effects'[k].import = "resolved"
             /\ CleanedUp(k)) =>
             ~effects'[k].loop /\ ~effects'[k].listeners]_vars

\* the first run's import resolved after its cleanup and set nothing up; the
\* second run's loop is the one rendering
C24_Witness ==
  /\ Len(effects) = 2 /\ viewerMounted
  /\ effects[1].import = "resolved" /\ effects[1].renderer = "none"
  /\ ~effects[1].loop /\ ~effects[1].listeners
  /\ effects[2].loop /\ effects[2].rendered = 1
  /\ ActiveLoops = {2}

====
